---- MODULE Spec2Model ----
(***************************************************************************)
(* Model of the obsidian-native-todoist plugin: the per-task               *)
(* reconciliation state (State), the state store (MyPlugin.taskStates),    *)
(* the sync engine (MyPlugin.syncState with its retry timers), the change  *)
(* detector (the metadataCache 'changed' handler) and the persistence of   *)
(* pending syncs (savePendingSyncs / restorePendingSyncs / saveSettings).  *)
(*                                                                         *)
(* Every await of the code is a suspension point: a suspended syncState    *)
(* invocation is an element of `attempts`, a suspended 'changed' handler   *)
(* an element of `handlers`, a pending window.setTimeout an element of     *)
(* `timers`. One action is one run of the single JavaScript thread from a  *)
(* resumption to the next suspension.                                      *)
(***************************************************************************)
EXTENDS Integers, Sequences, FiniteSets, Bags, TLC

\* ---------------------------------------------------------------- bounds
MaxCreate == 1     \* remote tasks the service creates (ids 1..MaxCreate)
MaxRetry == 3      \* retryAttempts is not incremented past this
MaxInflight == 2   \* syncState invocations suspended at the same time
MaxTimers == 1     \* retry timers pending at the same time
MaxHandlers == 1   \* 'changed' handlers suspended at the same time
MaxN == 12         \* retryAttempts of the states nextRetryDelay is called on
MaxPending == 2    \* retry timers pending at the same time when retries pile up
MaxOverlap == 2    \* 'changed' handlers suspended at the same time when events overlap

\* Events kept in a task's history: an observation, then MaxRetry + 1
\* attempts with their outcomes.
MaxLog == 2 * MaxRetry + 3

\* Task ids: 0 exists remotely before the plugin starts and is in the
\* document with its id marker; 1..MaxCreate are handed out by addTask.
PreIds == {0}
TaskIds == 0..MaxCreate

VARIABLES
    phase,          \* "down" | "restoring" | "running"
    taskStates,     \* MyPlugin.taskStates: partial map id -> State
    attempts,       \* bag of suspended syncState invocations
    timers,         \* bag of pending retry timers
    handlers,       \* bag of suspended 'changed' handlers
    restoreQueue,   \* entries restorePendingSyncs has still to replay
    settingsPending,\* the pendingSyncs key carried inside this.settings
    disk,           \* the persisted plugin data: its pendingSyncs list
    doc,            \* the document: a sequence of checklist lines
    remote,         \* the remote service: id -> "none"|"open"|"done"|"gone"
    nCreated,       \* tasks the remote service has created
    goneSeen,       \* history: ids for which a fetch found no remote task
    log,            \* history: per id, the events since the last toggle
    last            \* history: what the last step did

vars == <<phase, taskStates, attempts, timers, handlers, restoreQueue,
          settingsPending, disk, doc, remote, nCreated, goneSeen, log, last>>

\* ------------------------------------------------------------- helpers
Min(a, b) == IF a <= b THEN a ELSE b

RECURSIVE Pow2(_)
Pow2(n) == IF n = 0 THEN 1 ELSE 2 * Pow2(n - 1)

BagAdd(b, e) == b (+) SetToBag({e})
BagDel(b, e) == b (-) SetToBag({e})

\* What a step did. id: <<id>> of the task the step is about, or <<>>; pc:
\* the remote call whose outcome the step handles, or ""; calls: the remote calls issued, in order, as
\* <<kind, id>>; obs: one record per updateState call made; propagated: an
\* error left the handler or the sync attempt uncaught; skipped: lines of
\* the event left unprocessed; delay: the delay of the timer scheduled
\* (0: none); written: the pendingSyncs list handed to saveData; stale:
\* the ids of `written` whose store entry was synced at that moment.
Step(act, id, pc, w, propagated, skipped, written, stale) ==
    [act |-> act, id |-> id, pc |-> pc, calls |-> w.calls, obs |-> w.obs,
     propagated |-> propagated, skipped |-> skipped, delay |-> w.delay,
     written |-> written, stale |-> stale]

Nothing == [calls |-> <<>>, obs |-> <<>>, delay |-> 0]

\* ------------------------------------------------------ State (part_000)
\* new State(todoistId, checkboxState): synced = false, retryAttempts = 0
NewState(id, cb) ==
    [todoistId |-> id, checkboxState |-> cb, synced |-> FALSE, retryAttempts |-> 0]

nextRetryDelayUncapped(retryAttempts) ==
    LET base == 5000
    IN base * Pow2(retryAttempts)

\* State.nextRetryDelay: Math.min(base * Math.pow(2, retryAttempts), cap)
nextRetryDelay(retryAttempts) ==
    LET base == 5000
        cap == 5 * 60000
    IN Min(base * Pow2(retryAttempts), cap)

\* ------------------------------------------------- the store and the log
Put(ts, id, s) == (id :> s) @@ ts

Entry(ev, s, delay) ==
    [ev |-> ev, cb |-> s.checkboxState, synced |-> s.synced,
     ra |-> s.retryAttempts, delay |-> delay]

\* The history is kept for the ids in its domain, MaxLog events each.
LogAdd(lg, id, e) ==
    IF id \in DOMAIN lg /\ Len(lg[id]) < MaxLog
    THEN [lg EXCEPT ![id] = Append(@, e)] ELSE lg

LogReset(lg, id, e) ==
    IF id \in DOMAIN lg THEN [lg EXCEPT ![id] = <<e>>] ELSE lg

Attempt(id, pc, awaited) == [id |-> id, pc |-> pc, awaited |-> awaited]

Timer(id, delay) == [id |-> id, delay |-> delay]

\* The part of the state one run of the thread reads and writes:
\*   ts taskStates, atts attempts, tm timers, lg log, calls, obs, delay.
World ==
    [ts |-> taskStates, atts |-> attempts, tm |-> timers, lg |-> log,
     calls |-> <<>>, obs |-> <<>>, delay |-> 0]

\* --------------------------------------------------- syncState (todo.ts)
\* syncState up to its first await: todoist.getTask(state.todoistId)
StartSync(w, id, awaited) ==
    [w EXCEPT !.atts = BagAdd(@, Attempt(id, "getTask", awaited)),
              !.calls = Append(@, <<"getTask", id>>),
              !.lg = LogAdd(@, id, Entry("start", w.ts[id], 0))]

MarkSyncedKeepRetries(w, id) ==
    LET s == [w.ts[id] EXCEPT !.synced = TRUE]
    IN [w EXCEPT !.ts[id] = s, !.lg = LogAdd(@, id, Entry("ok", s, 0))]

\* lines 150-151: state.synced = true; state.retryAttempts = 0
MarkSynced(w, id) ==
    LET s == [w.ts[id] EXCEPT !.synced = TRUE, !.retryAttempts = 0]
    IN [w EXCEPT !.ts[id] = s, !.lg = LogAdd(@, id, Entry("ok", s, 0))]

CatchDelayFirst(w, id) ==
    LET delay == nextRetryDelay(w.ts[id].retryAttempts)
        s == [w.ts[id] EXCEPT !.retryAttempts = @ + 1]
    IN [w EXCEPT !.ts[id] = s,
                 !.tm = BagAdd(@, Timer(id, delay)),
                 !.delay = delay,
                 !.lg = LogAdd(@, id, Entry("fail", s, delay))]

CatchNoRetry(w, id) ==
    LET s == [w.ts[id] EXCEPT !.retryAttempts = @ + 1]
    IN [w EXCEPT !.ts[id] = s, !.lg = LogAdd(@, id, Entry("fail", s, 0))]

\* lines 152-159, the catch block: state.retryAttempts++, then
\* state.nextRetryDelay(), then window.setTimeout(retry, delay)
Catch(w, id) ==
    LET s == [w.ts[id] EXCEPT !.retryAttempts = @ + 1]
        delay == nextRetryDelay(s.retryAttempts)
    IN [w EXCEPT !.ts[id] = s,
                 !.tm = BagAdd(@, Timer(id, delay)),
                 !.delay = delay,
                 !.lg = LogAdd(@, id, Entry("fail", s, delay))]

DecideAlwaysClose(w, att, completed) ==
    IF w.ts[att.id].checkboxState
    THEN [w EXCEPT !.atts = BagAdd(@, [att EXCEPT !.pc = "closeTask"]),
                   !.calls = Append(@, <<"closeTask", att.id>>)]
    ELSE IF completed
    THEN [w EXCEPT !.atts = BagAdd(@, [att EXCEPT !.pc = "reopenTask"]),
                   !.calls = Append(@, <<"reopenTask", att.id>>)]
    ELSE MarkSynced(w, att.id)

DecideSwapped(w, att, completed) ==
    IF w.ts[att.id].checkboxState /\ ~completed
    THEN [w EXCEPT !.atts = BagAdd(@, [att EXCEPT !.pc = "reopenTask"]),
                   !.calls = Append(@, <<"reopenTask", att.id>>)]
    ELSE IF ~w.ts[att.id].checkboxState /\ completed
    THEN [w EXCEPT !.atts = BagAdd(@, [att EXCEPT !.pc = "closeTask"]),
                   !.calls = Append(@, <<"closeTask", att.id>>)]
    ELSE MarkSynced(w, att.id)

\* lines 145-151, run when getTask has returned a task: `completed` is
\* todoistTask.completedAt being set. w.atts no longer holds att.
Decide(w, att, completed) ==
    IF w.ts[att.id].checkboxState /\ ~completed
    THEN [w EXCEPT !.atts = BagAdd(@, [att EXCEPT !.pc = "closeTask"]),
                   !.calls = Append(@, <<"closeTask", att.id>>)]
    ELSE IF ~w.ts[att.id].checkboxState /\ completed
    THEN [w EXCEPT !.atts = BagAdd(@, [att EXCEPT !.pc = "reopenTask"]),
                   !.calls = Append(@, <<"reopenTask", att.id>>)]
    ELSE MarkSynced(w, att.id)

\* --------------------------------------------------- updateState (todo.ts)
Obs(w, id, cb, w2) ==
    [id |-> id, cb |-> cb,
     first |-> id \notin DOMAIN w.ts,
     changed |-> id \in DOMAIN w.ts /\ w.ts[id].checkboxState # cb,
     raBefore |-> IF id \in DOMAIN w.ts THEN w.ts[id].retryAttempts ELSE 0,
     after |-> w2.ts[id],
     calls |-> SubSeq(w2.calls, Len(w.calls) + 1, Len(w2.calls)),
     frame |-> /\ DOMAIN w2.ts = DOMAIN w.ts \cup {id}
               /\ \A j \in DOMAIN w.ts \ {id} : w2.ts[j] = w.ts[j]]

FirstSightUnsynced(w, id, cb) ==
    StartSync([w EXCEPT !.ts = Put(@, id, NewState(id, cb))], id, FALSE)

\* lines 126-129: new State, state.synced = true, stored; return
FirstSight(w, id, cb) ==
    [w EXCEPT !.ts = Put(@, id, [NewState(id, cb) EXCEPT !.synced = TRUE])]

ToggleKeepRetries(s, cb) ==
    [s EXCEPT !.checkboxState = cb, !.synced = FALSE]

\* lines 132-134
Toggle(s, cb) ==
    [s EXCEPT !.checkboxState = cb, !.synced = FALSE, !.retryAttempts = 0]

\* lines 123-137, up to the first await inside syncState
updateStateBody(w, id, cb) ==
    IF id \notin DOMAIN w.ts
    THEN FirstSight(w, id, cb)
    ELSE LET s == w.ts[id]
             changed == s.checkboxState # cb
             s1 == IF changed THEN Toggle(s, cb) ELSE s
             w1 == [w EXCEPT !.ts[id] = s1,
                             !.lg = IF changed
                                    THEN LogReset(@, id, Entry("observe", s, 0))
                                    ELSE @]
         IN IF s1.synced THEN w1 ELSE StartSync(w1, id, FALSE)

updateState(w, id, cb) ==
    LET w2 == updateStateBody(w, id, cb)
    IN [w2 EXCEPT !.obs = Append(@, Obs(w, id, cb, w2))]

\* ------------------------------------------ the document and its lines
\* A checklist line: marker is <<id>> when the line ends in (*id*), else
\* <<>>; tag: the line contains '#todoist'; checked: checkbox.task == "x".
Line(marker, tag, checked) == [marker |-> marker, tag |-> tag, checked |-> checked]

\* extractTodoistId: the id of the marker, or null (here <<>>)
extractTodoistId(line) == line.marker

\* Lines of a document a user keeps: task 0 with its marker, a new line
\* tagged #todoist with no marker yet, a checkbox that is no Todoist task.
TaskLine == Line(<<0>>, TRUE, FALSE)
NewLine == Line(<<>>, TRUE, FALSE)
PlainLine == Line(<<>>, FALSE, FALSE)

\* Documents whose checklist lines all carry an id marker already, and
\* documents with a line still to be created in Todoist.
TrackedDocs == {<<PlainLine, TaskLine>>}
NewDocs == {<<NewLine, TaskLine>>}

\* A document with two tasks Todoist already holds.
OtherTaskLine == Line(<<1>>, TRUE, FALSE)
TwoTaskDocs == {<<TaskLine, OtherTaskLine>>}

\* The ids the lines of a document carry in their markers.
Markers(lines) ==
    {extractTodoistId(lines[k])[1] :
        k \in {j \in 1..Len(lines) : extractTodoistId(lines[j]) # <<>>}}

Handler(lines, i, pc, newId) == [lines |-> lines, i |-> i, pc |-> pc, newId |-> newId]

\* lines 64-83, the loop over the checkboxes from line i on, up to its next
\* await: susp is the line whose addTask call suspends the handler, or 0
\* when the loop ran to its end.
RECURSIVE RunLines(_, _, _)
RunLines(w, lines, i) ==
    IF i > Len(lines) THEN [w |-> w, susp |-> 0]
    ELSE LET line == lines[i]
             id == extractTodoistId(line)
         IN IF id # <<>>
            THEN RunLines(updateState(w, id[1], line.checked), lines, i + 1)
            ELSE IF line.tag
            THEN [w |-> [w EXCEPT !.calls = Append(@, <<"addTask", i>>)], susp |-> i]
            ELSE RunLines(w, lines, i + 1)

\* ------------------------------------------------ persistence (todo.ts)
Persisted(s) ==
    [todoistId |-> s.todoistId, checkboxState |-> s.checkboxState,
     retryAttempts |-> s.retryAttempts]

RECURSIVE PendingAll(_, _)
PendingAll(ts, ids) ==
    IF ids = {} THEN <<>>
    ELSE LET id == CHOOSE x \in ids : \A y \in ids : x <= y
         IN <<Persisted(ts[id])>> \o PendingAll(ts, ids \ {id})

\* lines 95-97: Object.values(taskStates).filter(s => !s.synced).map(...);
\* Object.values lists integer-like keys in ascending order.
RECURSIVE Pending(_, _)
Pending(ts, ids) ==
    IF ids = {} THEN <<>>
    ELSE LET id == CHOOSE x \in ids : \A y \in ids : x <= y
             rest == Pending(ts, ids \ {id})
         IN IF ~ts[id].synced THEN <<Persisted(ts[id])>> \o rest ELSE rest

Ids(list) == {list[k].todoistId : k \in 1..Len(list)}

Stale(ts, list) == {id \in Ids(list) \cap DOMAIN ts : ts[id].synced}

RestoredFresh(e) == NewState(e.todoistId, e.checkboxState)

\* lines 106-108: new State(entry.todoistId, entry.checkboxState), synced =
\* false, retryAttempts = entry.retryAttempts
Restored(e) ==
    [NewState(e.todoistId, e.checkboxState)
       EXCEPT !.synced = FALSE, !.retryAttempts = e.retryAttempts]

\* lines 105-111, the loop of restorePendingSyncs from its next entry on, up
\* to its await of syncState: r.queue is what is left, r.phase "running"
\* once the loop has ended and onload has registered the 'changed' handler.
RestoreLoop(w, queue) ==
    IF queue = <<>>
    THEN [w |-> w, queue |-> <<>>, phase |-> "running"]
    ELSE LET e == Head(queue)
             w1 == [w EXCEPT !.ts = Put(@, e.todoistId, Restored(e))]
         IN [w |-> StartSync(w1, e.todoistId, TRUE), queue |-> Tail(queue),
             phase |-> "restoring"]

\* The end of a syncState invocation: the restore loop awaiting it goes on.
Resume(w, att) ==
    IF att.awaited THEN RestoreLoop(w, restoreQueue)
    ELSE [w |-> w, queue |-> restoreQueue, phase |-> phase]

\* ------------------------------------------------------------ the steps
InitWith(docs, logged) ==
    /\ phase = "down"
    /\ taskStates = <<>>
    /\ attempts = EmptyBag
    /\ timers = EmptyBag
    /\ handlers = EmptyBag
    /\ restoreQueue = <<>>
    /\ settingsPending = <<>>
    /\ disk = <<>>
    /\ doc \in docs
    /\ remote \in [TaskIds -> {"none", "open", "done"}]
    /\ \A id \in TaskIds : (remote[id] = "none") <=> (id \notin Markers(doc))
    /\ nCreated = 0
    /\ goneSeen = {}
    /\ log = [id \in logged |-> <<>>]
    /\ last = Step("init", <<>>, "", Nothing, FALSE, 0, <<>>, {})

\* The thread's run ends: its writes, within the bounds of the model.
Commit(w, ph, queue, step) ==
    /\ BagCardinality(w.atts) <= MaxInflight
    /\ BagCardinality(w.tm) <= MaxPending
    /\ \A id \in DOMAIN w.ts : w.ts[id].retryAttempts <= MaxRetry
    /\ taskStates' = w.ts
    /\ attempts' = w.atts
    /\ timers' = w.tm
    /\ log' = w.lg
    /\ phase' = ph
    /\ restoreQueue' = queue
    /\ last' = step

\* onload, lines 42-58: loadSettings, then restorePendingSyncs up to its
\* first await of syncState.
Load ==
    /\ phase = "down"
    /\ settingsPending' = disk
    /\ LET r == RestoreLoop(World, disk)
       IN Commit(r.w, r.phase, r.queue,
                 Step("load", <<>>, "", r.w, FALSE, 0, <<>>, {}))
    /\ UNCHANGED <<handlers, disk, doc, remote, nCreated, goneSeen>>

\* The 'changed' handler, lines 61-84, from the event to its first await.
Changed ==
    /\ phase = "running"
    /\ LET r == RunLines(World, doc, 1)
           hs == IF r.susp = 0 THEN handlers
                 ELSE BagAdd(handlers, Handler(doc, r.susp, "addTask", <<>>))
       IN /\ BagCardinality(hs) <= MaxOverlap
          /\ handlers' = hs
          /\ Commit(r.w, phase, restoreQueue,
                    Step("changed", <<>>, "", r.w, FALSE, 0, <<>>, {}))
    /\ UNCHANGED <<settingsPending, disk, doc, remote, nCreated, goneSeen>>

\* line 70 resolves: the service has created the task; line 72 awaits
\* getProject.
AddTaskOk(h) ==
    /\ h.pc = "addTask"
    /\ nCreated < MaxCreate
    /\ LET id == nCreated + 1
       IN /\ nCreated' = id
          /\ remote' = [remote EXCEPT ![id] = "open"]
          /\ handlers' = BagAdd(BagDel(handlers, h),
                                [h EXCEPT !.pc = "getProject", !.newId = <<id>>])
          /\ last' = Step("addTaskOk", <<id>>, "addTask",
                          [Nothing EXCEPT !.calls = <<<<"getProject", id>>>>],
                          FALSE, 0, <<>>, {})
    /\ UNCHANGED <<phase, taskStates, attempts, timers, restoreQueue,
                   settingsPending, disk, doc, goneSeen, log>>

\* line 70 or line 72 throws: nothing in the handler catches it; the
\* handler's promise rejects and the loop is left.
HandlerFail(h) ==
    /\ h.pc \in {"addTask", "getProject"}
    /\ handlers' = BagDel(handlers, h)
    /\ last' = Step("handlerFail", h.newId, h.pc, Nothing, TRUE,
                    Len(h.lines) - h.i, <<>>, {})
    /\ UNCHANGED <<phase, taskStates, attempts, timers, restoreQueue, settingsPending,
                   disk, doc, remote, nCreated, goneSeen, log>>

\* line 72 resolves; lines 73-76 rewrite the line in the handler's copy of
\* the text and await vault.modify.
GetProjectOk(h) ==
    /\ h.pc = "getProject"
    /\ handlers' = BagAdd(BagDel(handlers, h),
                          [h EXCEPT !.pc = "modify",
                                    !.lines[h.i] = Line(h.newId, TRUE, @.checked)])
    /\ last' = Step("getProjectOk", h.newId, "getProject", Nothing, FALSE, 0, <<>>, {})
    /\ UNCHANGED <<phase, taskStates, attempts, timers, restoreQueue, settingsPending,
                   disk, doc, remote, nCreated, goneSeen, log>>

\* line 76 resolves: the file now holds the handler's text; line 82 and the
\* rest of the loop run up to the next await.
ModifyDone(h) ==
    /\ h.pc = "modify"
    /\ doc' = h.lines
    /\ LET w1 == updateState(World, h.newId[1], h.lines[h.i].checked)
           r == RunLines(w1, h.lines, h.i + 1)
           hs == IF r.susp = 0 THEN BagDel(handlers, h)
                 ELSE BagAdd(BagDel(handlers, h),
                             Handler(h.lines, r.susp, "addTask", <<>>))
       IN /\ handlers' = hs
          /\ Commit(r.w, phase, restoreQueue,
                    Step("modifyDone", h.newId, "modify", r.w, FALSE, 0, <<>>, {}))
    /\ UNCHANGED <<settingsPending, disk, remote, nCreated, goneSeen>>

GoneRetries(w, id) == Catch(w, id)

\* line 144: if (!todoistTask) return
Gone(w, id) == w

\* line 143 resolves with a task: lines 145-151 run.
GetTaskOk(att) ==
    /\ att.pc = "getTask"
    /\ remote[att.id] \in {"open", "done"}
    /\ LET w0 == [World EXCEPT !.atts = BagDel(@, att)]
           w1 == Decide(w0, att, remote[att.id] = "done")
           r == IF w1.atts = w0.atts THEN Resume(w1, att)
                ELSE [w |-> w1, queue |-> restoreQueue, phase |-> phase]
       IN Commit(r.w, r.phase, r.queue,
                 Step("getTaskOk", <<att.id>>, "getTask", r.w, FALSE, 0, <<>>, {}))
    /\ UNCHANGED <<handlers, settingsPending, disk, doc, remote, nCreated, goneSeen>>

\* line 143 resolves with no task; line 144 returns.
GetTaskGone(att) ==
    /\ att.pc = "getTask"
    /\ remote[att.id] = "gone"
    /\ goneSeen' = goneSeen \cup {att.id}
    /\ LET r == Resume(Gone([World EXCEPT !.atts = BagDel(@, att)], att.id), att)
       IN Commit(r.w, r.phase, r.queue,
                 Step("getTaskGone", <<att.id>>, "getTask", r.w, FALSE, 0, <<>>, {}))
    /\ UNCHANGED <<handlers, settingsPending, disk, doc, remote, nCreated>>

\* line 146 resolves: the service has completed the task.
CloseTaskOk(att) ==
    /\ att.pc = "closeTask"
    /\ remote[att.id] \in {"open", "done"}
    /\ remote' = [remote EXCEPT ![att.id] = "done"]
    /\ LET r == Resume(MarkSynced([World EXCEPT !.atts = BagDel(@, att)], att.id), att)
       IN Commit(r.w, r.phase, r.queue,
                 Step("closeTaskOk", <<att.id>>, "closeTask", r.w, FALSE, 0, <<>>, {}))
    /\ UNCHANGED <<handlers, settingsPending, disk, doc, nCreated, goneSeen>>

\* line 148 resolves: the service has reopened the task.
ReopenTaskOk(att) ==
    /\ att.pc = "reopenTask"
    /\ remote[att.id] \in {"open", "done"}
    /\ remote' = [remote EXCEPT ![att.id] = "open"]
    /\ LET r == Resume(MarkSynced([World EXCEPT !.atts = BagDel(@, att)], att.id), att)
       IN Commit(r.w, r.phase, r.queue,
                 Step("reopenTaskOk", <<att.id>>, "reopenTask", r.w, FALSE, 0, <<>>, {}))
    /\ UNCHANGED <<handlers, settingsPending, disk, doc, nCreated, goneSeen>>

\* line 143, 146 or 148 throws: the catch block, lines 152-159.
SyncFail(att) ==
    /\ LET r == Resume(Catch([World EXCEPT !.atts = BagDel(@, att)], att.id), att)
       IN Commit(r.w, r.phase, r.queue,
                 Step("syncFail", <<att.id>>, att.pc, r.w, FALSE, 0, <<>>, {}))
    /\ UNCHANGED <<handlers, settingsPending, disk, doc, remote, nCreated, goneSeen>>

FireUnguarded(w, t) == StartSync(w, t.id, FALSE)

\* lines 156-158, the timer's callback: if (!state.synced) this.syncState(state)
Fire(w, t) ==
    IF ~w.ts[t.id].synced THEN StartSync(w, t.id, FALSE) ELSE w

TimerFire(t) ==
    /\ LET w == Fire([World EXCEPT !.tm = BagDel(@, t)], t)
       IN Commit(w, phase, restoreQueue,
                 Step("timerFire", <<t.id>>, "", w, FALSE, 0, <<>>, {}))
    /\ UNCHANGED <<handlers, settingsPending, disk, doc, remote, nCreated, goneSeen>>

\* What the service may hold for id once the process is gone: a closeTask
\* or reopenTask request already sent may still be served.
AfterExit(id) ==
    {remote[id]}
    \cup {"done" : a \in {a \in BagToSet(attempts) :
                            a.id = id /\ a.pc = "closeTask" /\ remote[id] = "open"}}
    \cup {"open" : a \in {a \in BagToSet(attempts) :
                            a.id = id /\ a.pc = "reopenTask" /\ remote[id] = "done"}}

savePendingSyncsAll(ts) == PendingAll(ts, DOMAIN ts)

\* savePendingSyncs, lines 94-100: the list handed to saveData
savePendingSyncs(ts) == Pending(ts, DOMAIN ts)

\* onunload, line 90; the process then ends: its store, its suspended
\* invocations and its timers are gone.
Unload ==
    /\ phase \in {"restoring", "running"}
    /\ LET written == savePendingSyncs(taskStates)
       IN /\ disk' = written
          /\ last' = Step("unload", <<>>, "", Nothing, FALSE, 0, written,
                          Stale(taskStates, written))
    /\ phase' = "down"
    /\ taskStates' = <<>>
    /\ attempts' = EmptyBag
    /\ timers' = EmptyBag
    /\ handlers' = EmptyBag
    /\ restoreQueue' = <<>>
    /\ settingsPending' = <<>>
    /\ log' = [id \in DOMAIN log |-> <<>>]
    /\ remote' \in [TaskIds -> {"none", "open", "done", "gone"}]
    /\ \A id \in TaskIds : remote'[id] \in AfterExit(id)
    /\ UNCHANGED <<doc, nCreated, goneSeen>>

\* saveSettings, line 119: saveData(this.settings); this.settings is
\* Object.assign({}, DEFAULT_SETTINGS, loadData()) of line 115, so it
\* carries the pendingSyncs key as it was loaded.
saveSettings(settings) == settings

SaveSettings ==
    /\ phase \in {"restoring", "running"}
    /\ LET written == saveSettings(settingsPending)
       IN /\ disk' = written
          /\ last' = Step("saveSettings", <<>>, "", Nothing, FALSE, 0, written,
                          Stale(taskStates, written))
    /\ UNCHANGED <<phase, taskStates, attempts, timers, handlers, restoreQueue,
                   settingsPending, doc, remote, nCreated, goneSeen, log>>

\* The user ticks or unticks the checkbox of line i in the editor.
UserToggle(i) ==
    /\ doc[i].marker # <<>> \/ doc[i].tag
    /\ doc' = [doc EXCEPT ![i].checked = ~@]
    /\ last' = Step("userToggle", doc[i].marker, "", Nothing, FALSE, 0, <<>>, {})
    /\ UNCHANGED <<phase, taskStates, attempts, timers, handlers, restoreQueue,
                   settingsPending, disk, remote, nCreated, goneSeen, log>>

\* The task is deleted in Todoist.
RemoteDelete(id) ==
    /\ remote[id] \in {"open", "done"}
    /\ remote' = [remote EXCEPT ![id] = "gone"]
    /\ last' = Step("remoteDelete", <<id>>, "", Nothing, FALSE, 0, <<>>, {})
    /\ UNCHANGED <<phase, taskStates, attempts, timers, handlers, restoreQueue,
                   settingsPending, disk, doc, nCreated, goneSeen, log>>

\* The sync engine: syncState's resumptions and the retry timers, while
\* the remote task exists.
SyncNext ==
    \/ \E att \in BagToSet(attempts) : GetTaskOk(att)
    \/ \E att \in BagToSet(attempts) : CloseTaskOk(att)
    \/ \E att \in BagToSet(attempts) : ReopenTaskOk(att)
    \/ \E att \in BagToSet(attempts) :
          BagCardinality(timers) < MaxTimers /\ SyncFail(att)
    \/ \E t \in BagToSet(timers) : TimerFire(t)

\* The resumptions of a 'changed' handler that creates a task.
CreateNext ==
    \/ \E h \in BagToSet(handlers) : AddTaskOk(h)
    \/ \E h \in BagToSet(handlers) : HandlerFail(h)
    \/ \E h \in BagToSet(handlers) : GetProjectOk(h)
    \/ \E h \in BagToSet(handlers) : ModifyDone(h)

\* The plugin over a document whose lines all carry their id marker.
Init == InitWith(TrackedDocs, {})

Next ==
    \/ Load
    \/ Changed
    \/ SyncNext
    \/ \E att \in BagToSet(attempts) : GetTaskGone(att)
    \/ Unload
    \/ SaveSettings
    \/ \E i \in 1..Len(doc) : UserToggle(i)
    \/ \E id \in TaskIds : RemoteDelete(id)

Spec == Init /\ [][Next]_vars

\* The retry scenario: no restart, no remote deletion, and the document
\* changes only while no sync attempt or retry of it is outstanding; the
\* history of task 0 is kept.
InitRetry == InitWith(TrackedDocs, PreIds)

ChangedAlone ==
    /\ attempts = EmptyBag
    /\ timers = EmptyBag
    /\ Changed

NextRetry ==
    \/ Load
    \/ ChangedAlone
    \/ SyncNext
    \/ \E i \in 1..Len(doc) : UserToggle(i)

SpecRetry == InitRetry /\ [][NextRetry]_vars

\* The sync engine under interleaving: document changes are handled while
\* attempts and retries of the task are outstanding; no restart, no remote
\* deletion; the history of task 0 is kept.
NextInterleave ==
    \/ Load
    \/ Changed
    \/ SyncNext
    \/ \E i \in 1..Len(doc) : UserToggle(i)

SpecInterleave == InitRetry /\ [][NextInterleave]_vars

\* The same engine without the history, while the process stays alive,
\* under fair scheduling: a remote call that is outstanding is answered at
\* some time (lines 143, 146, 148 resolve or throw), and a timer that is
\* pending fires at some time (line 156).
Responses ==
    \/ \E att \in BagToSet(attempts) : GetTaskOk(att)
    \/ \E att \in BagToSet(attempts) : CloseTaskOk(att)
    \/ \E att \in BagToSet(attempts) : ReopenTaskOk(att)
    \/ \E att \in BagToSet(attempts) :
          BagCardinality(timers) < MaxTimers /\ SyncFail(att)

TimersFire == \E t \in BagToSet(timers) : TimerFire(t)

SpecFair ==
    /\ Init
    /\ [][NextInterleave]_vars
    /\ WF_vars(Responses)
    /\ WF_vars(TimersFire)

\* The engine while the remote keeps failing: a failing call schedules its
\* retry whatever is pending already, up to MaxPending timers.
NextPileUp ==
    \/ Load
    \/ Changed
    \/ \E att \in BagToSet(attempts) : GetTaskOk(att)
    \/ \E att \in BagToSet(attempts) : CloseTaskOk(att)
    \/ \E att \in BagToSet(attempts) : ReopenTaskOk(att)
    \/ \E att \in BagToSet(attempts) : SyncFail(att)
    \/ \E t \in BagToSet(timers) : TimerFire(t)
    \/ \E i \in 1..Len(doc) : UserToggle(i)

SpecPileUp == Init /\ [][NextPileUp]_vars

\* The plugin over a document with a line to be created in Todoist.
InitCreate == InitWith(NewDocs, {})

NextCreate ==
    \/ Load
    \/ Changed /\ BagCardinality(handlers') <= MaxHandlers
    \/ CreateNext
    \/ SyncNext
    \/ \E i \in 1..Len(doc) : UserToggle(i)

SpecCreate == InitCreate /\ [][NextCreate]_vars

\* The creation of a task while 'changed' events overlap: an event is
\* handled whatever handlers are suspended already, up to MaxOverlap.
NextOverlap ==
    \/ Load
    \/ Changed
    \/ CreateNext
    \/ \E i \in 1..Len(doc) : UserToggle(i)

SpecOverlap == InitCreate /\ [][NextOverlap]_vars

\* The plugin over a document with two tracked tasks, with restarts: the
\* pending list may hold two entries.
InitPersist == InitWith(TwoTaskDocs, {})

ToggleAlone(i) ==
    /\ attempts = EmptyBag
    /\ timers = EmptyBag
    /\ UserToggle(i)

NextPersist ==
    \/ Load
    \/ ChangedAlone
    \/ SyncNext
    \/ Unload
    \/ \E i \in 1..Len(doc) : ToggleAlone(i)

SpecPersist == InitPersist /\ [][NextPersist]_vars

\* State.nextRetryDelay on its own: two State objects with any
\* retryAttempts in 0..MaxN, and calls of the method on either.
InitDelay ==
    /\ phase = "running"
    /\ \E n \in 0..MaxN, m \in 0..MaxN :
          taskStates = (0 :> [NewState(0, FALSE) EXCEPT !.retryAttempts = n])
                       @@ (1 :> [NewState(1, FALSE) EXCEPT !.retryAttempts = m])
    /\ attempts = EmptyBag
    /\ timers = EmptyBag
    /\ handlers = EmptyBag
    /\ restoreQueue = <<>>
    /\ settingsPending = <<>>
    /\ disk = <<>>
    /\ doc \in TwoTaskDocs
    /\ remote = [id \in TaskIds |-> IF id \in Markers(doc) THEN "open" ELSE "none"]
    /\ nCreated = 0
    /\ goneSeen = {}
    /\ log = <<>>
    /\ last = Step("init", <<>>, "", Nothing, FALSE, 0, <<>>, {})

\* state.nextRetryDelay() called on the State object of id; last.delay is
\* what it returns.
NextRetryDelay(id) ==
    /\ last' = Step("nextRetryDelay", <<id>>, "",
                    [Nothing EXCEPT !.delay = nextRetryDelay(taskStates[id].retryAttempts)],
                    FALSE, 0, <<>>, {})
    /\ UNCHANGED <<phase, taskStates, attempts, timers, handlers, restoreQueue,
                   settingsPending, disk, doc, remote, nCreated, goneSeen, log>>

NextDelay == \E id \in DOMAIN taskStates : NextRetryDelay(id)

SpecDelay == InitDelay /\ [][NextDelay]_vars

TypeOK ==
    /\ phase \in {"down", "restoring", "running"}
    /\ DOMAIN taskStates \subseteq TaskIds
    /\ \A id \in DOMAIN taskStates : taskStates[id].todoistId = id
    /\ \A a \in BagToSet(attempts) : a.id \in DOMAIN taskStates
    /\ \A t \in BagToSet(timers) : t.id \in DOMAIN taskStates

\* ------------------------------------------------------------ the claims
Count(calls, kind, id) ==
    Cardinality({k \in 1..Len(calls) : calls[k] = <<kind, id>>})

InFlight(id) == \E a \in BagToSet(attempts) : a.id = id

Scheduled(id) == \E t \in BagToSet(timers) : t.id = id

\* C1: in every reachable state, every task state with synced = true has
\* retryAttempts = 0.
C1_SyncedHasNoRetries ==
    \A id \in DOMAIN taskStates :
        taskStates[id].synced => taskStates[id].retryAttempts = 0

\* C2: while the process is alive, every state of the store with
\* synced = false has a sync attempt in flight or a retry timer scheduled.
C2_UnsyncedIsPursued ==
    \A id \in DOMAIN taskStates :
        ~taskStates[id].synced => InFlight(id) \/ Scheduled(id)

\* The retry scenario of task 0: true is observed on a tracked state with
\* checkboxState = false and synced = true, then three attempts fail one
\* after the other and the fourth succeeds.
RetryScenario ==
    /\ 0 \in DOMAIN log
    /\ Len(log[0]) = 9
    /\ [k \in 1..9 |-> log[0][k].ev] =
           <<"observe", "start", "fail", "start", "fail", "start", "fail",
             "start", "ok">>
    /\ ~log[0][1].cb
    /\ log[0][1].synced
    /\ log[0][2].cb

\* C3 as stated: in the retry scenario retryAttempts takes the values 1, 2,
\* 3 and then 0, and the delays scheduled are 5000, 10000 and 20000 ms.
C3_DelaysAsStated ==
    RetryScenario =>
        /\ <<log[0][3].ra, log[0][5].ra, log[0][7].ra, log[0][9].ra>> = <<1, 2, 3, 0>>
        /\ <<log[0][3].delay, log[0][5].delay, log[0][7].delay>> = <<5000, 10000, 20000>>

\* C3 amended: in the retry scenario retryAttempts takes the values 1, 2, 3
\* and then 0, and the delays scheduled before the three retries are 10000,
\* 20000 and 40000 ms: the delay is computed after the increment.
C3_DelaysAfterIncrement ==
    RetryScenario =>
        /\ <<log[0][3].ra, log[0][5].ra, log[0][7].ra, log[0][9].ra>> = <<1, 2, 3, 0>>
        /\ <<log[0][3].delay, log[0][5].delay, log[0][7].delay>> = <<10000, 20000, 40000>>

C3_Witness ==
    /\ RetryScenario
    /\ taskStates[0].synced
    /\ taskStates[0].retryAttempts = 0
    /\ remote[0] = "done"

\* C4: once a fetch has found that the remote task of an id no longer
\* exists, no step issues a remote call for that id, and the pending list
\* written at shutdown does not hold the id.
C4_GoneIsTerminal ==
    \A id \in goneSeen :
        /\ \A k \in 1..Len(last.calls) : last.calls[k][2] # id
        /\ last.act = "unload" => id \notin Ids(last.written)

\* C5: a failed remote call (getTask, closeTask, reopenTask, addTask,
\* getProject) is caught where it is made and a retry timer is scheduled;
\* no error leaves the sync attempt or the 'changed' handler, and no
\* checklist line of the event is left unprocessed.
C5_RemoteFailuresAreRetried ==
    last.act \in {"syncFail", "handlerFail"} =>
        /\ ~last.propagated
        /\ last.delay > 0
        /\ last.skipped = 0

\* C6: every write of the persisted data, at shutdown or on a settings
\* change, carries a pending list none of whose ids has a synced state in
\* the store at that moment.
C6_OnlyUnsyncedPersisted ==
    last.act \in {"unload", "saveSettings"} => last.stale = {}

\* C7: the first observation of an id that is not in the store issues no
\* remote call and adds exactly one entry, with the observed checkboxState,
\* synced = true and retryAttempts = 0.
C7_FirstObservationIsBaseline ==
    \A k \in 1..Len(last.obs) :
        LET o == last.obs[k]
        IN o.first =>
            /\ o.calls = <<>>
            /\ o.after = [todoistId |-> o.id, checkboxState |-> o.cb,
                          synced |-> TRUE, retryAttempts |-> 0]
            /\ o.frame

C7_Witness ==
    /\ last.act = "changed"
    /\ \E k \in 1..Len(last.obs) : last.obs[k].first /\ last.obs[k].cb
    /\ last.calls = <<>>
    /\ attempts = EmptyBag

\* C8: observing, for a tracked id, a checkboxState other than the stored
\* one stores the observed value, sets synced = false and
\* retryAttempts = 0, and starts a sync attempt for the id (one getTask
\* call); no other entry of the store changes.
C8_ToggleResetsAndSyncs ==
    \A k \in 1..Len(last.obs) :
        LET o == last.obs[k]
        IN o.changed =>
            /\ o.after = [todoistId |-> o.id, checkboxState |-> o.cb,
                          synced |-> FALSE, retryAttempts |-> 0]
            /\ o.calls = <<<<"getTask", o.id>>>>
            /\ \E a \in BagToSet(attempts) : a.id = o.id /\ a.pc = "getTask"
            /\ o.frame

C8_Witness ==
    \E k \in 1..Len(last.obs) :
        /\ last.obs[k].changed
        /\ last.obs[k].raBefore > 0
        /\ Scheduled(last.obs[k].id)

\* The fetch of the last step returned the task of id with the completion
\* status `completed`, to a state whose checkboxState is cb.
Fetched(id, cb, completed) ==
    /\ last.act = "getTaskOk"
    /\ last.id = <<id>>
    /\ taskStates[id].checkboxState = cb
    /\ (remote[id] = "done") = completed

\* C9: a sync attempt whose fetch shows the remote completion status equal
\* to the state's checkboxState issues neither closeTask nor reopenTask and
\* ends with synced = true and retryAttempts = 0.
C9_ConsistentFetchIsNoOp ==
    \A id \in DOMAIN taskStates : \A b \in BOOLEAN :
        Fetched(id, b, b) =>
            /\ Count(last.calls, "closeTask", id) = 0
            /\ Count(last.calls, "reopenTask", id) = 0
            /\ taskStates[id].synced
            /\ taskStates[id].retryAttempts = 0

C9_Witness ==
    /\ Fetched(0, TRUE, TRUE)
    /\ taskStates[0].synced
    /\ last.calls = <<>>

\* C10: a sync attempt whose fetch succeeds issues exactly one closeTask and
\* no reopenTask when checkboxState is true and the remote is not completed,
\* exactly one reopenTask and no closeTask when checkboxState is false and
\* the remote is completed; when that call succeeds the state has
\* synced = true and retryAttempts = 0.
C10_DivergentFetchMutatesOnce ==
    \A id \in DOMAIN taskStates :
        /\ Fetched(id, TRUE, FALSE) =>
              /\ Count(last.calls, "closeTask", id) = 1
              /\ Count(last.calls, "reopenTask", id) = 0
        /\ Fetched(id, FALSE, TRUE) =>
              /\ Count(last.calls, "reopenTask", id) = 1
              /\ Count(last.calls, "closeTask", id) = 0
        /\ last.act \in {"closeTaskOk", "reopenTaskOk"} /\ last.id = <<id>> =>
              /\ taskStates[id].synced
              /\ taskStates[id].retryAttempts = 0

C10_Witness ==
    /\ last.act = "reopenTaskOk"
    /\ last.id = <<0>>
    /\ taskStates[0].synced
    /\ remote[0] = "open"

\* C11: a sync attempt whose fetch finds no remote task ends without an
\* error, without a closeTask or reopenTask call, without scheduling a
\* timer and without changing synced or retryAttempts of the state.
C11_GoneFetchChangesNothing ==
    [][last'.act = "getTaskGone" =>
          LET id == last'.id[1]
          IN /\ ~last'.propagated
             /\ Count(last'.calls, "closeTask", id) = 0
             /\ Count(last'.calls, "reopenTask", id) = 0
             /\ last'.delay = 0
             /\ timers' = timers
             /\ taskStates'[id] = taskStates[id]]_vars

C11_Witness ==
    /\ last.act = "getTaskGone"
    /\ last.id = <<0>>
    /\ ~taskStates[0].synced
    /\ taskStates[0].retryAttempts > 0
    /\ ~Scheduled(0)

\* restorePendingSyncs run to its end over `list`, as far as the store goes:
\* the insertions of lines 106-109, in the order of the list.
RECURSIVE RestoreAll(_, _)
RestoreAll(ts, list) ==
    IF list = <<>> THEN ts
    ELSE RestoreAll(Put(ts, Head(list).todoistId, Restored(Head(list))), Tail(list))

\* C12: round trip. For every store the plugin reaches, restoring its
\* shutdown snapshot into an empty store inserts exactly the ids that were
\* unsynced, each with the taskId, checkboxState and retryAttempts it had
\* and with synced = false; no synced id is inserted.
C12_RoundTrip ==
    LET back == RestoreAll(<<>>, savePendingSyncs(taskStates))
    IN /\ DOMAIN back = {id \in DOMAIN taskStates : ~taskStates[id].synced}
       /\ \A id \in DOMAIN back :
             back[id] = [todoistId |-> id,
                         checkboxState |-> taskStates[id].checkboxState,
                         synced |-> FALSE,
                         retryAttempts |-> taskStates[id].retryAttempts]

\* A store to snapshot with an unsynced entry that has failed before and a
\* synced one.
C12_Witness ==
    /\ phase = "running"
    /\ DOMAIN taskStates = {0, 1}
    /\ ~taskStates[0].synced
    /\ taskStates[0].checkboxState
    /\ taskStates[0].retryAttempts > 1
    /\ taskStates[1].synced

\* C16: at every shutdown, each id that is unsynced in the store, and each
\* entry of the loaded pending list not yet restored into the store, is in
\* the list the shutdown writes, with its checkboxState.
C16_NoPendingWorkLost ==
    [][last'.act = "unload" =>
          /\ \A id \in DOMAIN taskStates :
                ~taskStates[id].synced =>
                    \E k \in 1..Len(disk') :
                        /\ disk'[k].todoistId = id
                        /\ disk'[k].checkboxState = taskStates[id].checkboxState
          /\ \A j \in 1..Len(restoreQueue) :
                \E k \in 1..Len(disk') :
                    /\ disk'[k].todoistId = restoreQueue[j].todoistId
                    /\ disk'[k].checkboxState = restoreQueue[j].checkboxState]_vars

\* C17: a retry timer that fires while its state is synced issues no
\* remote call, starts no attempt, schedules no timer and leaves every
\* state as it was; only the fired timer is gone.
C17_StaleTimerIsNoOp ==
    [][(last'.act = "timerFire" /\ taskStates[last'.id[1]].synced) =>
          /\ last'.calls = <<>>
          /\ last'.delay = 0
          /\ attempts' = attempts
          /\ taskStates' = taskStates
          /\ \E t \in BagToSet(timers) :
                t.id = last'.id[1] /\ timers' = BagDel(timers, t)]_vars

C17_Witness ==
    /\ last.act = "timerFire"
    /\ last.id = <<0>>
    /\ last.calls = <<>>
    /\ taskStates[0].synced
    /\ ~InFlight(0)

\* C13: for every retryAttempts n >= 0 the delay nextRetryDelay returns is
\* min(5000 * 2^n, 300000); it never exceeds 300000 and is not smaller than
\* the delay of a state with fewer retryAttempts.
C13_DelayIsCappedBackoff ==
    last.act = "nextRetryDelay" =>
        LET n == taskStates[last.id[1]].retryAttempts
        IN /\ last.delay = (IF 5000 * 2^n <= 300000 THEN 5000 * 2^n ELSE 300000)
           /\ last.delay <= 300000
           /\ \A j \in DOMAIN taskStates :
                 taskStates[j].retryAttempts <= n =>
                     nextRetryDelay(taskStates[j].retryAttempts) <= last.delay

\* The method called where the cap applies, next to a state below the cap.
C13_Witness ==
    /\ last.act = "nextRetryDelay"
    /\ last.id = <<0>>
    /\ taskStates[0].retryAttempts = 7
    /\ taskStates[1].retryAttempts = 3
    /\ last.delay = 300000

\* C14: convergence under interleaving. Whenever a state is synced, an
\* attempt for it has succeeded since its value was last observed to change,
\* no attempt for it is in flight and no retry timer for it is pending, the
\* remote task is completed exactly when checkboxState is true.
C14_SyncedMatchesRemote ==
    \A id \in DOMAIN taskStates \cap DOMAIN log :
        ( /\ taskStates[id].synced
          /\ \E k \in 1..Len(log[id]) : log[id][k].ev = "ok"
          /\ ~InFlight(id)
          /\ ~Scheduled(id)
          /\ remote[id] \in {"open", "done"} )
        => ((remote[id] = "done") <=> taskStates[id].checkboxState)

\* A 'changed' event in which updateState sees a value differ from the
\* stored one; a remote call of a sync attempt failing.
ObservesChange ==
    /\ last'.act = "changed"
    /\ \E k \in 1..Len(last'.obs) : last'.obs[k].changed

Fails == last'.act = "syncFail"

\* C15: liveness. While the process stays alive and the remote task exists,
\* if from some time on no observation changes a value and no remote call
\* fails, then under fair scheduling of responses and timers every unsynced
\* state is later synced with retryAttempts = 0.
C15_UnsyncedEventuallySynced ==
    (<>[][~ObservesChange /\ ~Fails]_vars) =>
        \A id \in PreIds :
            (id \in DOMAIN taskStates /\ ~taskStates[id].synced)
            ~> ( /\ id \in DOMAIN taskStates
                 /\ taskStates[id].synced
                 /\ taskStates[id].retryAttempts = 0 )

\* An unsynced state that has failed and waits for its retry timer.
C15_Witness ==
    /\ 0 \in DOMAIN taskStates
    /\ ~taskStates[0].synced
    /\ taskStates[0].retryAttempts > 1
    /\ Scheduled(0)
    /\ ~InFlight(0)

\* C18: in every reachable state at most one retry timer is pending for
\* each task id.
C18_OneTimerPerId ==
    \A t \in BagToSet(timers), u \in BagToSet(timers) :
        t.id = u.id => (t = u /\ CopiesIn(t, timers) = 1)

\* C19: a tagged line without an id marker causes at most one addTask call:
\* no 'changed' event issues addTask for a line while a handler that has
\* issued it for that line is still suspended (at addTask, getProject or
\* the write-back).
C19_OneCreatePerLine ==
    [][last'.act = "changed" =>
          \A k \in 1..Len(last'.calls) :
              last'.calls[k][1] = "addTask" =>
                  \A h \in BagToSet(handlers) : h.i # last'.calls[k][2]]_vars
====
